---- MODULE Spec2Model ----
(***************************************************************************)
(* A model of package i64 (bits.go): the 64-bit bit field Bits, its        *)
(* iterator Iter and the constructor Range.                                *)
(*                                                                         *)
(* Representation.  A uint64 word is the set of the positions of its 1     *)
(* bits, a subset of 0 .. 63, so that the word operations of the source    *)
(* are |  = \cup, & = \cap, ^w = complement in 0 .. 63, w - 1 = Sub1(w)    *)
(* (borrow through the trailing zeros, wrapping at 0) and 1 << c =         *)
(* Shl1(c) (0 when the count is 64 or more, as Go defines it).             *)
(* A Go int is a two's complement integer of IntBits bits; conversions and *)
(* additions wrap modulo 2^IntBits.                                        *)
(***************************************************************************)
EXTENDS Integers, Sequences, FiniteSets, TLC

VARIABLES
    b,      \* the caller's variable of type Bits
    it,     \* the caller's variable of type Iter: the bits still to visit
    b0,     \* history: the value b had when it := b.Iter() ran
    xs,     \* the values >= 0 that it.Next() has returned, in order (bits_test.go:31)
    x,      \* the value the latest it.Next() returned
    calls,  \* the number of it.Next() calls made on the current iterator
    prev,   \* history: the value of b before the latest method call
    last,   \* history: the latest method call, [op, arg, ret]
    pc,     \* the position of the running program (Range, the Iter example)
    args,   \* the arguments the running program was called with
    low,    \* Range's parameter low, as reassigned by the clamp
    high,   \* Range's parameter high, as reassigned by the clamp
    n       \* Range's loop counter

vars == <<b, it, b0, xs, x, calls, prev, last, pc, args, low, high, n>>

----------------------------------------------------------------------------
(* Bounds of the model and constants of the program.                       *)

\* The width of a Bits / Iter word (type Bits uint64).
WordBits == 64

\* The width of the model's int.  Go's int has 32 or 64 bits and TLC's
\* integers 32, so the model keeps the two's complement wrap-around at a
\* smaller width, one that still holds every position, count and argument.
IntBits == 8

\* The most it.Next() calls made on one iterator.
MaxCalls == 8

MaxInt == 2^(IntBits - 1) - 1
MinInt == -(2^(IntBits - 1))

AllPositions == 0 .. (WordBits - 1)

\* The positions the callers use: those of the tests and of the Iter example.
InRange == {0, 5, 10, 41, 43, 63}

\* Positions outside [0, 63]: next to the ends, and congruent to 5 modulo 64.
OutOfRange == {-1, 64, 69, -59}

\* The positions of FieldSpec: all those of the tests, and the ones out of range.
Positions == InRange \cup {2, 4, 12} \cup OutOfRange

----------------------------------------------------------------------------
(* Word and integer primitives.                                            *)

\* uint64(k) for an int k: the same bit pattern read as unsigned.
Uint64(k) == k % (2^IntBits)

\* 1 << c for an unsigned count c: Go shifts out every bit when c >= 64.
Shl1_Masked(c) == {c % WordBits}
Shl1(c) == IF c >= WordBits THEN {} ELSE {c}

\* ^w
Not(w) == AllPositions \ w

\* bits.TrailingZeros64(w): the number of 0 bits below the lowest 1 bit; 64 for 0.
RECURSIVE TZFrom(_, _)
TZFrom(w, i) == IF i = WordBits \/ i \in w THEN i ELSE TZFrom(w, i + 1)
TrailingZeros64(w) == TZFrom(w, 0)

\* bits.LeadingZeros64(w): the number of 0 bits above the highest 1 bit; 64 for 0.
RECURSIVE LZFrom(_, _)
LZFrom(w, i) == IF i = WordBits \/ (WordBits - 1 - i) \in w THEN i ELSE LZFrom(w, i + 1)
LeadingZeros64(w) == LZFrom(w, 0)

\* bits.OnesCount64(w)
OnesCount64(w) == Cardinality(w)

\* w - 1 modulo 2^64: the lowest 1 bit becomes 0 and the zeros below it 1.
Sub1(w) ==
    IF w = {} THEN AllPositions
    ELSE LET l == TrailingZeros64(w) IN (w \ {l}) \cup (0 .. (l - 1))

\* k + s in a Go int: wraps modulo 2^IntBits.
WrapAdd(k, s) == ((k + s - MinInt) % (2^IntBits)) + MinInt

----------------------------------------------------------------------------
(* The methods of Bits and Iter.                                           *)

\* func (b Bits) Set(n int) Bits
Set_Toggle(w, k) == (w \cup Shl1(Uint64(k))) \ (w \cap Shl1(Uint64(k)))
Set(w, k) == w \cup Shl1(Uint64(k))

\* func (b Bits) Unset(n int) Bits
Unset(w, k) == w \cap Not(Shl1(Uint64(k)))

\* func (b Bits) Test(n int) bool
Test(w, k) == (w \cap Shl1(Uint64(k))) # {}

\* func (b Bits) Empty() bool
Empty(w) == w = {}

\* func (b Bits) Count() int
Count(w) == OnesCount64(w)

\* func (b Bits) Singular() bool
Singular(w) == w # {} /\ (w \cap Sub1(w)) = {}

\* func (b Bits) Least() int
Least(w) == IF w = {} THEN -1 ELSE TrailingZeros64(w)

\* func (b Bits) Most() int
Most_OffByOne(w) == IF w = {} THEN -1 ELSE WordBits - LeadingZeros64(w)
Most(w) == IF w = {} THEN -1 ELSE (WordBits - 1) - LeadingZeros64(w)

\* func (b Bits) Iter() Iter
Iter(w) == w

\* func (it *Iter) Next() int: the value returned and the new value of *it.
Next_NoEmptyCheck(w) == [ret |-> TrailingZeros64(w), it |-> w \cap Sub1(w)]
Next_Most(w) ==
    IF w = {} THEN [ret |-> -1, it |-> w]
    ELSE [ret |-> (WordBits - 1) - LeadingZeros64(w), it |-> w \cap Sub1(w)]
Next(w) ==
    IF w = {} THEN [ret |-> -1, it |-> w]
    ELSE [ret |-> TrailingZeros64(w), it |-> w \cap Sub1(w)]

----------------------------------------------------------------------------
(* Spec: a caller that reassigns b with Set / Unset, takes iterators of b  *)
(* and calls Next on the current one, in any interleaving.                 *)

NoCall == [op |-> "none", arg |-> 0, ret |-> {}]
NoArgs == [prog |-> "none"]

Init ==
    /\ b = {}
    /\ it = Iter({})
    /\ b0 = {}
    /\ xs = <<>>
    /\ x = -1
    /\ calls = 0
    /\ prev = {}
    /\ last = NoCall
    /\ pc = "idle"
    /\ args = NoArgs
    /\ low = 0
    /\ high = 0
    /\ n = 0

\* b = b.Set(k)
SetStep(k) ==
    /\ b' = Set(b, k)
    /\ UNCHANGED <<it, b0, xs, x, calls, prev, last, pc, args, low, high, n>>

\* b = b.Unset(k)
UnsetStep(k) ==
    /\ b' = Unset(b, k)
    /\ UNCHANGED <<it, b0, xs, x, calls, prev, last, pc, args, low, high, n>>

\* it := b.Iter()
IterStep ==
    /\ it' = Iter(b)
    /\ b0' = b
    /\ xs' = <<>>
    /\ x' = -1
    /\ calls' = 0
    /\ UNCHANGED <<b, prev, last, pc, args, low, high, n>>

\* x = it.Next(), the value collected when it is >= 0 (bits_test.go:33-35)
NextStep_InPlace ==
    /\ calls < MaxCalls
    /\ x' = Next(it).ret
    /\ it' = Next(it).it
    /\ b' = b \cap (Next(it).it \cup Not(it))
    /\ xs' = IF Next(it).ret >= 0 THEN Append(xs, Next(it).ret) ELSE xs
    /\ calls' = calls + 1
    /\ UNCHANGED <<b0, prev, last, pc, args, low, high, n>>
NextStep ==
    /\ calls < MaxCalls
    /\ x' = Next(it).ret
    /\ it' = Next(it).it
    /\ xs' = IF Next(it).ret >= 0 THEN Append(xs, Next(it).ret) ELSE xs
    /\ calls' = calls + 1
    /\ UNCHANGED <<b, b0, prev, last, pc, args, low, high, n>>

Step ==
    \/ \E k \in InRange : SetStep(k)
    \/ \E k \in InRange : UnsetStep(k)
    \/ IterStep
    \/ NextStep

Spec == Init /\ [][Step]_vars

----------------------------------------------------------------------------
(* Properties of the iterator, checked under Spec.                         *)

\* The set bits of a word in ascending order.
RECURSIVE Ascending(_)
Ascending(w) ==
    IF w = {} THEN <<>>
    ELSE LET m == CHOOSE i \in w : \A j \in w : i <= j
         IN <<m>> \o Ascending(w \ {m})

Elems(s) == {s[i] : i \in 1 .. Len(s)}

\* C1: when Next has been called on a fresh iterator of a field until it
\* returned -1, the values it returned are strictly ascending (so without
\* duplicates), they are exactly the positions in [0, 63] at which Test is
\* true of the field, and there are Count() of them.
C1_FullIteration ==
    (calls > 0 /\ x = -1) =>
        /\ \A i \in 1 .. (Len(xs) - 1) : xs[i] < xs[i + 1]
        /\ Elems(xs) = {k \in AllPositions : Test(b0, k)}
        /\ Len(xs) = Count(b0)

C1_Witness == calls > 0 /\ x = -1 /\ Len(xs) >= 4 /\ b = b0

\* C2: a Next call never adds a bit to the remaining word; a call that
\* returns a value >= 0 returns the lowest remaining bit and removes that bit
\* and no other; a call made after a call that returned -1 returns -1 again
\* and leaves the remaining word 0.
C2_ExhaustionTerminal ==
    [][calls' = calls + 1 =>
        /\ it' \subseteq it
        /\ x' >= 0 => (x' \in it /\ (\A j \in it : x' <= j) /\ it' = it \ {x'})
        /\ x' < 0 => (x' = -1 /\ it = {} /\ it' = {})
        /\ (calls > 0 /\ x = -1) => (x' = -1 /\ it' = {})]_vars

C2_Witness == b0 # {} /\ x = -1 /\ calls > Cardinality(b0) + 1

\* C3: whatever is done to b after it := b.Iter(), the values Next has
\* returned are the first of the ascending enumeration of the bits b had at
\* that moment and the remaining word holds the rest of them; and no Next
\* call changes b.
C3_IterIndependent ==
    /\ [](/\ Len(xs) <= Len(Ascending(b0))
          /\ \A i \in 1 .. Len(xs) : xs[i] = Ascending(b0)[i]
          /\ it = b0 \ Elems(xs))
    /\ [][calls' = calls + 1 => b' = b]_vars

C3_Witness ==
    /\ Len(xs) >= 2
    /\ x >= 0
    /\ xs[1] \notin b
    /\ \E k \in b : k \notin b0

----------------------------------------------------------------------------
(* FieldSpec: a caller that applies Set, Unset and Test to b at any        *)
(* position, in range or not, keeping the value b had before the call and  *)
(* what the call was and returned.                                         *)

\* b = b.Set(k)
CallSet(k) ==
    /\ b' = Set(b, k)
    /\ prev' = b
    /\ last' = [op |-> "Set", arg |-> k, ret |-> Set(b, k)]
    /\ UNCHANGED <<it, b0, xs, x, calls, pc, args, low, high, n>>

\* b = b.Unset(k)
CallUnset(k) ==
    /\ b' = Unset(b, k)
    /\ prev' = b
    /\ last' = [op |-> "Unset", arg |-> k, ret |-> Unset(b, k)]
    /\ UNCHANGED <<it, b0, xs, x, calls, pc, args, low, high, n>>

\* b.Test(k)
CallTest(k) ==
    /\ prev' = b
    /\ last' = [op |-> "Test", arg |-> k, ret |-> Test(b, k)]
    /\ UNCHANGED <<b, it, b0, xs, x, calls, pc, args, low, high, n>>

FieldStep ==
    \/ \E k \in Positions : CallSet(k)
    \/ \E k \in Positions : CallUnset(k)
    \/ \E k \in Positions : CallTest(k)

FieldSpec == Init /\ [][FieldStep]_vars

\* C5: after b = b.Set(k) with k in [0, 63], Test(m) is true exactly for
\* m = k and the m at which it was true before; after b = b.Unset(k), exactly
\* for the m other than k at which it was true before; and applying the same
\* call once more returns the same field.
C5_SetUnsetTest ==
    /\ (last.op = "Set" /\ last.arg \in AllPositions) =>
          /\ \A m \in AllPositions : Test(b, m) <=> (m = last.arg \/ Test(prev, m))
          /\ Set(b, last.arg) = b
    /\ (last.op = "Unset" /\ last.arg \in AllPositions) =>
          /\ \A m \in AllPositions : Test(b, m) <=> (m # last.arg /\ Test(prev, m))
          /\ Unset(b, last.arg) = b

C5_Witness == last.op = "Set" /\ last.arg = 43 /\ Test(prev, 43) /\ Test(prev, 41)

\* C6: a field with no bit set has Least() = Most() = -1, Empty() true and
\* Count() = 0; any other field has Least() the smallest and Most() the
\* largest position at which Test is true, Empty() false and Count() > 0.
C6_LeastMost ==
    LET on == {k \in AllPositions : Test(b, k)} IN
    /\ on = {} =>
          (Least(b) = -1 /\ Most(b) = -1 /\ Empty(b) /\ Count(b) = 0)
    /\ on # {} =>
          /\ Least(b) \in on /\ \A k \in on : Least(b) <= k
          /\ Most(b) \in on /\ \A k \in on : k <= Most(b)
          /\ ~Empty(b) /\ Count(b) > 0
    /\ Empty(b) <=> Count(b) = 0
    /\ Empty(b) <=> Least(b) = -1
    /\ Empty(b) <=> Most(b) = -1

C6_Witness == last.op = "Unset" /\ Cardinality(prev) = 1 /\ b = {}

----------------------------------------------------------------------------
(* RangeSpec: one call Range(low, high, step), a step of the model being   *)
(* the clamp, one evaluation of the loop condition or one run of the loop  *)
(* body.                                                                   *)

Lows == {-3, 0, 2, 5, 63, 70}
Highs == {-1, 0, 2, 10, 63, 100}
Steps == {-1, 0, 1, 2, 3, 7, MaxInt - 2, MaxInt - 1, MaxInt}

RangeInit ==
    /\ pc = "entry"
    /\ args \in [prog : {"Range"}, low : Lows, high : Highs, step : Steps]
    /\ low = args.low
    /\ high = args.high
    /\ n = 0
    /\ b = {}
    /\ it = {}
    /\ b0 = {}
    /\ xs = <<>>
    /\ x = -1
    /\ calls = 0
    /\ prev = {}
    /\ last = NoCall

\* if low < 0 { low = 0 }; if high > 63 { high = 63 }; n := low
RangeClamp_BothEnds ==
    /\ pc = "entry"
    /\ low' = IF low < 0 THEN 0 ELSE IF low > 63 THEN 63 ELSE low
    /\ high' = IF high > 63 THEN 63 ELSE IF high < 0 THEN 0 ELSE high
    /\ n' = low'
    /\ pc' = "test"
    /\ UNCHANGED <<b, it, b0, xs, x, calls, prev, last, args>>
RangeClamp ==
    /\ pc = "entry"
    /\ low' = IF low < 0 THEN 0 ELSE low
    /\ high' = IF high > 63 THEN 63 ELSE high
    /\ n' = low'
    /\ pc' = "test"
    /\ UNCHANGED <<b, it, b0, xs, x, calls, prev, last, args>>

\* n <= high
RangeTest ==
    /\ pc = "test"
    /\ pc' = IF n <= high THEN "body" ELSE "done"
    /\ UNCHANGED <<b, it, b0, xs, x, calls, prev, last, args, low, high, n>>

\* b = b.Set(n); n += step
RangeBody ==
    /\ pc = "body"
    /\ b' = Set(b, n)
    /\ n' = WrapAdd(n, args.step)
    /\ pc' = "test"
    /\ UNCHANGED <<it, b0, xs, x, calls, prev, last, args, low, high>>

RangeNext == RangeClamp \/ RangeTest \/ RangeBody

RangeSpec == RangeInit /\ [][RangeNext]_vars

\* A started call keeps running: Go runs the loop until its condition fails.
FairRangeSpec == RangeSpec /\ WF_vars(RangeNext)

Clamp(k) == IF k < 0 THEN 0 ELSE IF k > 63 THEN 63 ELSE k

\* The positions lo, lo + st, lo + 2 * st, ... that are <= hi.
Progression(lo, hi, st) ==
    {m \in AllPositions : lo <= m /\ m <= hi /\ (m - lo) % st = 0}

\* C7 as claimed: for step >= 1, Range returns the progression of step from
\* clamp(low, 0, 63) up to clamp(high, 0, 63), both bounds clamped at both ends.
C7_ClampBothEnds ==
    (pc = "done" /\ args.step >= 1) =>
        b = Progression(Clamp(args.low), Clamp(args.high), args.step)

\* C7, amended: for step >= 1, with L = max(low, 0) and H = min(high, 63)
\* (low is only raised to 0 and high only lowered to 63), Range returns the
\* empty field when L > H; every position L + k * step <= H is set and no
\* position above H is; and when step <= MaxInt - H, so that the counter
\* cannot wrap around, the positions L + k * step <= H are the only ones set.
C7_ClampOneSided ==
    (pc = "done" /\ args.step >= 1) =>
        LET L == IF args.low < 0 THEN 0 ELSE args.low
            H == IF args.high > 63 THEN 63 ELSE args.high
        IN  /\ L > H => b = {}
            /\ Progression(L, H, args.step) \subseteq b
            /\ \A m \in b : m <= H
            /\ args.step <= MaxInt - H => b = Progression(L, H, args.step)

C7_Witness ==
    /\ pc = "done"
    /\ args.low > 63
    /\ args.high > 63
    /\ args.step = 1
    /\ b = {}

\* C8: every call Range(low, high, step) returns, whatever low, high and step.
C8_RangeTerminates == <>(pc = "done")

\* C9: for 0 <= low <= high <= 63 and step >= 1, Range sets no bit other than
\* low, low + step, low + 2 * step, ... <= high, and a step greater than
\* high - low gives the field with the single bit low.
C9_NoReentry ==
    (/\ pc = "done"
     /\ 0 <= args.low /\ args.low <= args.high /\ args.high <= 63
     /\ args.step >= 1) =>
        /\ b \subseteq Progression(args.low, args.high, args.step)
        /\ args.step > args.high - args.low => b = {args.low}

----------------------------------------------------------------------------
(* ExampleSpec: the usage example in the comment on type Iter, for any two *)
(* positions p and q in place of 5 and 10, with the statements b.Set(p)    *)
(* and b.Set(q) as the comment has them (keep = FALSE: the value returned  *)
(* is dropped) or as the tests have them (keep = TRUE: b = b.Set(p)).      *)

ExampleInit ==
    /\ pc = "set1"
    /\ args \in [prog : {"example"}, p : InRange, q : InRange, keep : BOOLEAN]
    /\ b = {}
    /\ it = {}
    /\ b0 = {}
    /\ xs = <<>>
    /\ x = -1
    /\ calls = 0
    /\ prev = {}
    /\ last = NoCall
    /\ low = 0
    /\ high = 0
    /\ n = 0

\* b.Set(p)
ExampleSet1 ==
    /\ pc = "set1"
    /\ prev' = b
    /\ last' = [op |-> "Set", arg |-> args.p, ret |-> Set(b, args.p)]
    /\ b' = IF args.keep THEN Set(b, args.p) ELSE b
    /\ pc' = "set2"
    /\ UNCHANGED <<it, b0, xs, x, calls, args, low, high, n>>

\* b.Set(q)
ExampleSet2 ==
    /\ pc = "set2"
    /\ prev' = b
    /\ last' = [op |-> "Set", arg |-> args.q, ret |-> Set(b, args.q)]
    /\ b' = IF args.keep THEN Set(b, args.q) ELSE b
    /\ pc' = "iter"
    /\ UNCHANGED <<it, b0, xs, x, calls, args, low, high, n>>

\* it := b.Iter()
ExampleIter ==
    /\ pc = "iter"
    /\ it' = Iter(b)
    /\ b0' = b
    /\ pc' = "loop"
    /\ UNCHANGED <<b, xs, x, calls, prev, last, args, low, high, n>>

\* for x := it.Next(); x >= 0; x = it.Next() { fmt.Println(x) }
ExampleLoop ==
    /\ pc = "loop"
    /\ x' = Next(it).ret
    /\ it' = Next(it).it
    /\ calls' = calls + 1
    /\ xs' = IF Next(it).ret >= 0 THEN Append(xs, Next(it).ret) ELSE xs
    /\ pc' = IF Next(it).ret >= 0 THEN "loop" ELSE "exit"
    /\ UNCHANGED <<b, b0, prev, last, args, low, high, n>>

ExampleNext == ExampleSet1 \/ ExampleSet2 \/ ExampleIter \/ ExampleLoop

ExampleSpec == ExampleInit /\ [][ExampleNext]_vars

\* C4: the example as written, b.Set(5) and b.Set(10) on a zero b with the
\* values returned dropped, prints 5 and then 10.
C4_DocExample ==
    (pc = "exit" /\ ~args.keep /\ args.p = 5 /\ args.q = 10) => xs = <<5, 10>>

====
